---- MODULE Spec2Model ----
(***************************************************************************)
(* A model of the image editor's canvas module (canvas.js, kept as         *)
(* src/unnamed/part_000) and of its image collection                       *)
(* (src/src/js/uploaded-images.js).                                        *)
(*                                                                         *)
(* Numbers.  JavaScript numbers are modelled as exact rationals <<n, d>>   *)
(* in lowest terms with d > 0, so that the scale of the Transform (a       *)
(* quotient of viewport and image sizes, multiplied by 0.8 or 1.25 on      *)
(* zoom) and every product or quotient by it is computed, not assumed.     *)
(*                                                                         *)
(* Modules of the repository that are not among the source files           *)
(* (area.js, transform.js, zoom.js, rotation.js, flip.js, top-bar.js,      *)
(* crop-panel.js, image-folder.js) are modelled from their contracts in    *)
(* the specification; the platform (event dispatch, animation frames,      *)
(* image decoding, CanvasRenderingContext2D.getImageData, toBlob) is       *)
(* modelled from the HTML standard.                                        *)
(***************************************************************************)
EXTENDS Integers, Sequences, FiniteSets, TLC

\* ------------------------------------------------------------------ bounds

\* Most input events (pointer, wheel, keyboard, clicks, uploads) in a run of
\* the whole program and of its parts; the callbacks they lead to (animation
\* frames, decodes, encodings) are not counted.
MaxSteps == 4
StepsGesture == 4
StepsSnap == 2
StepsHandles == 3
StepsExtract == 4
StepsRegion == 4
StepsCut == 4
StepsSwitch == 4
\* Most entries of the animation-frame callback list at any time.
MaxRaf == 2
\* Most images in the image collection.
MaxImages == 2
\* Most crop requests in flight at any time.
MaxCrops == 1
\* Most pointer-moves delivered to handlePointermove between two frames.
MaxMoves == 3
\* Largest denominator of a Transform entry that zoom and pan may produce.
MaxDen == 5
\* Largest magnitude of a Transform translation that zoom and pan may produce.
MaxShift == 40

\* ------------------------------------------------------- program constants

\* The snap tolerance of updatePoint, in pixels.
SnapTolerance == 8
\* The tolerance of the resize handles (area.js, setDirection), in pixels.
HandleTolerance == 8
\* window.innerWidth and window.innerHeight, read by resetCanvasDimensions.
ViewportWidth == 40
ViewportHeight == 40

\* -------------------------------------------------------- exact arithmetic

Abs(n) == IF n < 0 THEN -n ELSE n

RECURSIVE GCD(_, _)
GCD(a, b) == IF b = 0 THEN a ELSE GCD(b, a % b)

\* The rational n/d (d # 0) in lowest terms with a positive denominator.
Rat(n, d) ==
  LET g == GCD(Abs(n), Abs(d))
      s == IF d < 0 THEN -1 ELSE 1
  IN  <<(s * n) \div g, (s * d) \div g>>

Q(n) == <<n, 1>>
Zero == Q(0)
One == Q(1)
Add(p, q) == Rat(p[1] * q[2] + q[1] * p[2], p[2] * q[2])
Sub(p, q) == Rat(p[1] * q[2] - q[1] * p[2], p[2] * q[2])
Mul(p, q) == Rat(p[1] * q[1], p[2] * q[2])
Div(p, q) == Rat(p[1] * q[2], p[2] * q[1])
Lt(p, q) == p[1] * q[2] < q[1] * p[2]
Gt(p, q) == Lt(q, p)
Le(p, q) == ~Lt(q, p)
Min(p, q) == IF Lt(q, p) THEN q ELSE p
Max(p, q) == IF Lt(p, q) THEN q ELSE p
\* JavaScript truthiness of a number: every number but 0 (and NaN) is true.
Truthy(p) == p[1] # 0
\* Math.round: the integer nearest to p, a tie rounded towards +infinity.
Round(p) == Q((2 * p[1] + p[2]) \div (2 * p[2]))
\* |p - q|
Dist(p, q) == LET d == Sub(p, q) IN IF d[1] < 0 THEN <<-d[1], d[2]>> ELSE d

\* ------------------------------------------------------------------- state

VARIABLES
  \* uploaded-images.js
  images,            \* the image collection, a sequence of image records
  activeImageIndex,  \* index into images, counted from 0 as in the source
  activeListItem,    \* the highlighted list item (its index), or None
  reads,             \* readImages calls awaiting the decode of their first file
  \* canvas.js
  canvas,            \* TRUE once initCanvasElement has found the canvas element
  canvasImage,       \* the image element drawn on the canvas: its current image
  pendingSrc,        \* the image canvasImage is decoding, or None
  pointerPosition,   \* None, or the grab point recorded by handlePointerdown
  eventToEnable,     \* "", "select", "resize", "move" or "drag"
  keepMask,
  selectionDisabled,
  snapArea,
  cutModeEnabled,
  handlingMove,
  cropVisible,       \* cropBtnElement has the class "visible"
  listeners,         \* the window listeners canvas.js has registered
  rafQueue,          \* callbacks requested for the next animation frame
  moves,             \* pointer-moves handlePointermove received since the last frame
  forcedDowns,       \* pointer-downs taken in cut mode since its button was clicked
  screen,            \* what the canvas shows: the last paint of drawImage/drawArea
  crops,             \* crop requests in flight (cropBtnElement click handler)
  settled,           \* how the last getCanvasSlice promise settled, or None
  folder,            \* the raster last handed to renderAddedFolderImage, or None
  \* area.js, transform.js, rotation.js, flip.js, top-bar.js, crop-panel.js
  area,              \* [x, y, width, height], in screen pixels
  direction,         \* the resize direction last detected by setDirection
  transform,         \* [a, e, f]: scale and translation (b = c = 0, d = a)
  rotation,
  flip,              \* [flipH, flipV], each 1 or -1
  panelVisible,      \* isPanelVisible()
  cropPanelResets,   \* calls of resetCropPanelInputs, counted modulo 2
  \* the page
  isMobile,          \* window.orientation !== undefined, fixed at page load
  budget             \* input events the run may still take

vars ==
  <<images, activeImageIndex, activeListItem, reads, canvas, canvasImage,
    pendingSrc, pointerPosition, eventToEnable, keepMask, selectionDisabled,
    snapArea, cutModeEnabled, handlingMove, cropVisible, listeners, rafQueue,
    moves, forcedDowns, screen, crops, settled, folder, area, direction,
    transform, rotation, flip, panelVisible, cropPanelResets, isMobile, budget>>

\* An absent value (null, or a promise not yet settled) is the empty sequence,
\* a present one the sequence of it.
None == <<>>
Some(v) == <<v>>

\* ------------------------------------------------- area.js (from the spec)

\* resetArea(point): an empty Area at the point, (0, 0) when none is given.
resetArea(x, y) == [x |-> x, y |-> y, width |-> Zero, height |-> Zero]

\* const areaDrawn = area.width && area.height
areaDrawn(a) == Truthy(a.width) /\ Truthy(a.height)

\* isInsideArea(x, y): the point lies in the rectangle, whatever the signs of
\* its width and height.
isInsideArea(a, x, y) ==
  /\ Le(Min(a.x, Add(a.x, a.width)), x) /\ Le(x, Max(a.x, Add(a.x, a.width)))
  /\ Le(Min(a.y, Add(a.y, a.height)), y) /\ Le(y, Max(a.y, Add(a.y, a.height)))

\* The pointer is within the handle tolerance of the edge at coordinate edge,
\* and along the edge (lo..hi on the other axis, widened by the tolerance).
NearEdge(p, edge, q, lo, hi) ==
  /\ Le(Dist(p, edge), Q(HandleTolerance))
  /\ Le(Sub(Min(lo, hi), Q(HandleTolerance)), q)
  /\ Le(q, Add(Max(lo, hi), Q(HandleTolerance)))

\* setDirection(x, y): which of the 8 handles the pointer is on, "" for none;
\* "n" names the edge y, "s" the edge y + height, "w" the edge x, "e" the
\* edge x + width.  An edge and an adjacent edge together give the corner.
setDirection(a, x, y) ==
  LET x2 == Add(a.x, a.width)
      y2 == Add(a.y, a.height)
      v == IF NearEdge(y, a.y, x, a.x, x2) THEN "n"
           ELSE IF NearEdge(y, y2, x, a.x, x2) THEN "s" ELSE ""
      h == IF NearEdge(x, a.x, y, a.y, y2) THEN "w"
           ELSE IF NearEdge(x, x2, y, a.y, y2) THEN "e" ELSE ""
  IN  v \o h

Directions == {"", "n", "s", "e", "w", "ne", "nw", "se", "sw"}

\* direction.includes(c) and direction[0] === c, for these direction strings
Includes(d, c) ==
  CASE c = "n" -> d \in {"n", "ne", "nw"}
    [] c = "s" -> d \in {"s", "se", "sw"}
    [] c = "e" -> d \in {"e", "ne", "se"}
    [] c = "w" -> d \in {"w", "nw", "sw"}
First(d, c) ==
  CASE c = "n" -> d \in {"n", "ne", "nw"}
    [] c = "s" -> d \in {"s", "se", "sw"}
    [] c = "e" -> d = "e"
    [] c = "w" -> d = "w"

\* -------------------------------------- transform.js, zoom.js (from the spec)

\* getTransformedPoint(x, y), the spec's screenToImage
getTransformedPoint(t, x, y) ==
  [x |-> Div(Sub(x, t.e), t.a), y |-> Div(Sub(y, t.f), t.a)]

\* translateContext(dx, dy): adds to e and f
translateContext(t, dx, dy) == [t EXCEPT !.e = Add(@, dx), !.f = Add(@, dy)]

\* applyScaleMultiplier(factor, pivotX, pivotY)
applyScaleMultiplier(t, factor, px, py) ==
  [a |-> Mul(t.a, factor),
   e |-> Sub(px, Mul(Sub(px, t.e), factor)),
   f |-> Sub(py, Mul(Sub(py, t.f), factor))]

\* scaleImageToFitCanvas(image): the largest scale at which the image fits
\* the viewport, the image centred
scaleImageToFitCanvas(img) ==
  LET s == Min(Div(Q(ViewportWidth), Q(img.width)),
               Div(Q(ViewportHeight), Q(img.height)))
  IN  [a |-> s,
       e |-> Div(Sub(Q(ViewportWidth), Mul(Q(img.width), s)), Q(2)),
       f |-> Div(Sub(Q(ViewportHeight), Mul(Q(img.height), s)), Q(2))]

\* The Transform entries zoom and pan may produce in this model.
Bounded(q) == q[2] <= MaxDen /\ Abs(q[1]) <= MaxShift * q[2]
BoundedTransform(t) ==
  /\ t.a[2] <= MaxDen /\ t.a[1] <= MaxDen * t.a[2]
  /\ Bounded(t.e) /\ Bounded(t.f)

\* ------------------------------------------------ canvas.js: pure helpers

\* drawArea after drawImage: what drawCanvas leaves on the canvas.  The mask
\* is painted when the rounded width or height is non-zero or keepMask is
\* set; the pixels under the Area are restored when both are non-zero.
drawCanvas(img, a, km) ==
  LET areaWidth == Round(a.width)
      areaHeight == Round(a.height)
  IN  [image |-> img.name,
       mask |-> Truthy(areaWidth) \/ Truthy(areaHeight) \/ km,
       region |-> Truthy(areaWidth) /\ Truthy(areaHeight)]

\* drawImage alone (handlePointerup): the image, no mask, no outline
drawImage(img) == [image |-> img.name, mask |-> FALSE, region |-> FALSE]

\* selectArea as it would be if it kept the magnitudes of width and height.
selectAreaMagnitude(a, x, y) ==
  [a EXCEPT !.width = Dist(x, a.x), !.height = Dist(y, a.y)]

selectArea(a, x, y) ==
  [a EXCEPT !.width = Sub(x, a.x), !.height = Sub(y, a.y)]

\* resizeArea as it would be if the "n" and "w" branches moved the corner
\* and left height and width as they were.
resizeAreaCornerOnly(a, d, x, y) ==
  LET v == IF First(d, "n")
             THEN [a EXCEPT !.y = y]
           ELSE IF First(d, "s")
             THEN [a EXCEPT !.height = Sub(y, a.y)]
           ELSE a
  IN  IF Includes(d, "w")
        THEN [v EXCEPT !.x = x]
      ELSE IF Includes(d, "e")
        THEN [v EXCEPT !.width = Sub(x, v.x)]
      ELSE v

resizeArea(a, d, x, y) ==
  LET v == IF First(d, "n")
             THEN [a EXCEPT !.height = Add(Sub(a.y, y), a.height), !.y = y]
           ELSE IF First(d, "s")
             THEN [a EXCEPT !.height = Sub(y, a.y)]
           ELSE a
  IN  IF Includes(d, "w")
        THEN [v EXCEPT !.width = Add(Sub(v.x, x), v.width), !.x = x]
      ELSE IF Includes(d, "e")
        THEN [v EXCEPT !.width = Sub(x, v.x)]
      ELSE v

\* updatePoint as it would be with the tolerance taken inclusively
\* (>= and <= where the source has > and <).
updatePointInclusive(point, grab, dimension, areaDimension, offset, scale) ==
  LET diff == Sub(point, grab)
      scaledDimension == Mul(dimension, scale)
      tol == Q(SnapTolerance)
      diff2 == Add(diff, areaDimension)
      far == Add(offset, scaledDimension)
  IN  IF Gt(areaDimension, Zero)
        THEN IF Le(diff, Add(offset, tol)) /\ Le(Sub(offset, tol), diff)
               THEN offset
             ELSE IF /\ Le(diff2, Add(Add(offset, tol), scaledDimension))
                     /\ Le(Add(Sub(offset, tol), scaledDimension), diff2)
               THEN Sub(far, areaDimension)
             ELSE diff
      ELSE   IF Le(diff2, Add(offset, tol)) /\ Le(Sub(offset, tol), diff2)
               THEN Sub(offset, areaDimension)
             ELSE IF /\ Le(diff, Add(Add(offset, tol), scaledDimension))
                     /\ Le(Add(Sub(offset, tol), scaledDimension), diff)
               THEN far
             ELSE diff

\* updatePoint: the new area[pointName], given the pointer coordinate, the
\* grab offset pointerPosition[pointName], the image's dimension, the Area's
\* dimension, the Transform's translation on this axis and its scale.
updatePoint(point, grab, dimension, areaDimension, offset, scale) ==
  LET diff == Sub(point, grab)
      scaledDimension == Mul(dimension, scale)
      tol == Q(SnapTolerance)
      diff2 == Add(diff, areaDimension)
      far == Add(offset, scaledDimension)
  IN  IF Gt(areaDimension, Zero)
        THEN IF Gt(Add(offset, tol), diff) /\ Lt(Sub(offset, tol), diff)
               THEN offset
             ELSE IF /\ Gt(Add(Add(offset, tol), scaledDimension), diff2)
                     /\ Lt(Add(Sub(offset, tol), scaledDimension), diff2)
               THEN Sub(far, areaDimension)
             ELSE diff
      ELSE   IF Gt(Add(offset, tol), diff2) /\ Lt(Sub(offset, tol), diff2)
               THEN Sub(offset, areaDimension)
             ELSE IF /\ Gt(Add(Add(offset, tol), scaledDimension), diff)
                     /\ Lt(Add(Sub(offset, tol), scaledDimension), diff)
               THEN far
             ELSE diff

moveArea(a, pp, t, img, snap, x, y) ==
  IF snap
    THEN [a EXCEPT
           !.x = updatePoint(x, pp[1].x, Q(img.width), a.width, t.e, t.a),
           !.y = updatePoint(y, pp[1].y, Q(img.height), a.height, t.f, t.a)]
    ELSE [a EXCEPT !.x = Sub(x, pp[1].x), !.y = Sub(y, pp[1].y)]

dragImage(t, pp, x, y) ==
  IF pp # None
    THEN LET pt == getTransformedPoint(t, x, y)
         IN  translateContext(t, Sub(pt.x, pp[1].x), Sub(pt.y, pp[1].y))
    ELSE t

\* handleDoubleClick's geometry as it would be if it took every extent for
\* positive.
snapToImageEdgePositive(a, d, t, img) ==
  LET scaledHeight == Mul(Q(img.height), t.a)
      scaledWidth == Mul(Q(img.width), t.a)
      v == IF Includes(d, "n")
             THEN [a EXCEPT !.height = Sub(Add(a.height, a.y), t.f), !.y = t.f]
           ELSE IF Includes(d, "s")
             THEN [a EXCEPT !.height =
                     Sub(Add(Add(t.f, a.height), scaledHeight),
                         Add(a.y, a.height))]
           ELSE a
  IN  IF Includes(d, "w")
        THEN [v EXCEPT !.width = Sub(Add(v.width, v.x), t.e), !.x = t.e]
      ELSE IF Includes(d, "e")
        THEN [v EXCEPT !.width =
                Sub(Add(Add(t.e, v.width), scaledWidth), Add(v.x, v.width))]
      ELSE v

\* The Area handleDoubleClick leaves, for a drawn Area: the vertical pair
\* (y, height) first, then the horizontal pair (x, width).
snapToImageEdge(a, d, t, img) ==
  LET scaledHeight == Mul(Q(img.height), t.a)
      scaledWidth == Mul(Q(img.width), t.a)
      v == IF Gt(a.height, Zero)
             THEN IF Includes(d, "n")
                    THEN [a EXCEPT !.height = Sub(Add(a.height, a.y), t.f),
                                   !.y = t.f]
                  ELSE IF Includes(d, "s")
                    THEN [a EXCEPT !.height =
                            Sub(Add(Add(t.f, a.height), scaledHeight),
                                Add(a.y, a.height))]
                  ELSE a
           ELSE   IF Includes(d, "n")
                    THEN [a EXCEPT !.height =
                            Sub(Sub(a.height, Sub(scaledHeight, a.y)), t.f),
                                   !.y = Add(scaledHeight, t.f)]
                  ELSE IF Includes(d, "s")
                    THEN [a EXCEPT !.height =
                            Sub(Add(a.height, t.f), Add(a.y, a.height))]
                  ELSE a
  IN  IF Gt(v.width, Zero)
        THEN IF Includes(d, "w")
               THEN [v EXCEPT !.width = Sub(Add(v.width, v.x), t.e), !.x = t.e]
             ELSE IF Includes(d, "e")
               THEN [v EXCEPT !.width =
                       Sub(Add(Add(t.e, v.width), scaledWidth),
                           Add(v.x, v.width))]
             ELSE v
      ELSE   IF Includes(d, "w")
               THEN [v EXCEPT !.width =
                       Sub(Sub(v.width, Sub(scaledWidth, v.x)), t.e),
                              !.x = Add(scaledWidth, t.e)]
             ELSE IF Includes(d, "e")
               THEN [v EXCEPT !.width =
                       Sub(Add(v.width, t.e), Add(v.x, v.width))]
             ELSE v

\* The Area that Ctrl+A and the cut-mode button set: the transformed image.
imageArea(t, img) ==
  [x |-> t.e, y |-> t.f,
   width |-> Mul(Q(img.width), t.a), height |-> Mul(Q(img.height), t.a)]

\* The raster of an off-screen canvas nothing was drawn on.
NoRaster ==
  [image |-> "", left |-> Zero, top |-> Zero, rotation |-> 0,
   flip |-> [flipH |-> 1, flipV |-> 1]]

\* getCroppedCanvas as it would be if a block of negative width or height
\* were refused as one of zero width or height is.
getCroppedCanvasPositive(image, t, a, rot, fl) ==
  LET scale == t.a
      translated == [x |-> Div(t.e, scale), y |-> Div(t.f, scale)]
      transformedArea ==
        [x |-> Round(Div(a.x, scale)), y |-> Round(Div(a.y, scale)),
         width |-> Round(Div(a.width, scale)),
         height |-> Round(Div(a.height, scale))]
  IN  IF Le(transformedArea.width, Zero) \/ Le(transformedArea.height, Zero)
        THEN [error |-> "IndexSizeError", width |-> 0, height |-> 0,
              raster |-> NoRaster]
        ELSE [error |-> "",
              width |-> transformedArea.width[1],
              height |-> transformedArea.height[1],
              raster |-> [image |-> image.name,
                          left |-> Sub(transformedArea.x, translated.x),
                          top |-> Sub(transformedArea.y, translated.y),
                          rotation |-> rot, flip |-> fl]]

\* getCroppedCanvas as it would be without ctx.translate: the image drawn at
\* the corner of the off-screen canvas.
getCroppedCanvasUntranslated(image, t, a, rot, fl) ==
  LET scale == t.a
      transformedArea ==
        [x |-> Round(Div(a.x, scale)), y |-> Round(Div(a.y, scale)),
         width |-> Round(Div(a.width, scale)),
         height |-> Round(Div(a.height, scale))]
      left == Min(transformedArea.x,
                  Add(transformedArea.x, transformedArea.width))
      top == Min(transformedArea.y,
                 Add(transformedArea.y, transformedArea.height))
  IN  IF ~Truthy(transformedArea.width) \/ ~Truthy(transformedArea.height)
        THEN [error |-> "IndexSizeError", width |-> 0, height |-> 0,
              raster |-> NoRaster]
        ELSE [error |-> "",
              width |-> Abs(transformedArea.width[1]),
              height |-> Abs(transformedArea.height[1]),
              raster |-> [image |-> image.name, left |-> left, top |-> top,
                          rotation |-> rot, flip |-> fl]]

\* getCroppedCanvas(image): the off-screen canvas holding the extracted
\* block.  getImageData throws an IndexSizeError when it is asked for a block
\* of zero width or height; a negative width or height names the block that
\* extends to the left of or above the given corner.  The raster is named by
\* what decides its pixels: the image, its rotation and flip, and the block's
\* corner in image pixels (the context is translated by (e / scale,
\* f / scale) before the image is drawn).
getCroppedCanvas(image, t, a, rot, fl) ==
  LET scale == t.a
      translated == [x |-> Div(t.e, scale), y |-> Div(t.f, scale)]
      transformedArea ==
        [x |-> Round(Div(a.x, scale)), y |-> Round(Div(a.y, scale)),
         width |-> Round(Div(a.width, scale)),
         height |-> Round(Div(a.height, scale))]
      left == Min(transformedArea.x,
                  Add(transformedArea.x, transformedArea.width))
      top == Min(transformedArea.y,
                 Add(transformedArea.y, transformedArea.height))
  IN  IF ~Truthy(transformedArea.width) \/ ~Truthy(transformedArea.height)
        THEN [error |-> "IndexSizeError", width |-> 0, height |-> 0,
              raster |-> NoRaster]
        ELSE [error |-> "",
              width |-> Abs(transformedArea.width[1]),
              height |-> Abs(transformedArea.height[1]),
              raster |-> [image |-> image.name,
                          left |-> Sub(left, translated.x),
                          top |-> Sub(top, translated.y),
                          rotation |-> rot, flip |-> fl]]

\* ------------------------------------------------------------------ start

\* HTMLImageElement before any image is decoded: new Image()
NoImage == [name |-> "", type |-> "", width |-> 0, height |-> 0]

Identity == [a |-> One, e |-> Zero, f |-> Zero]

Init ==
  /\ images = <<>>
  /\ activeImageIndex = 0
  /\ activeListItem = None
  /\ reads = <<>>
  /\ canvas = FALSE
  /\ canvasImage = NoImage
  /\ pendingSrc = None
  /\ pointerPosition = None
  /\ eventToEnable = ""
  /\ keepMask = FALSE
  /\ selectionDisabled = FALSE
  /\ snapArea = FALSE
  /\ cutModeEnabled = FALSE
  /\ handlingMove = FALSE
  /\ cropVisible = FALSE
  /\ listeners = {}
  /\ rafQueue = <<>>
  /\ moves = 0
  /\ forcedDowns = 0
  /\ screen = drawImage(NoImage)
  /\ crops = <<>>
  /\ settled = None
  /\ folder = None
  /\ area = resetArea(Zero, Zero)
  /\ direction = ""
  /\ transform = Identity
  /\ rotation = 0
  /\ flip = [flipH |-> 1, flipV |-> 1]
  /\ panelVisible = FALSE
  /\ cropPanelResets = 0
  /\ isMobile \in BOOLEAN
  /\ budget = MaxSteps

uploadVars == <<images, activeImageIndex, activeListItem, reads>>
cropVars == <<crops, settled, folder>>
externVars == <<rotation, flip, panelVisible, isMobile>>
flagVars == <<selectionDisabled, snapArea>>

\* requestAnimationFrame(callback): the callback runs in the next frame.
\* "drawCanvas" is drawCanvas itself; "moveDraw" is handlePointermove's
\* callback, which runs drawCanvas and then clears handlingMove.
requestAnimationFrame(q, callback) == Append(q, callback)

\* An input event is handled.
Event == budget > 0 /\ budget' = budget - 1
\* A callback runs.
Callback == UNCHANGED budget
CanRequest == Len(rafQueue) < MaxRaf

Count(q, callback) == Cardinality({i \in 1..Len(q) : q[i] = callback})

\* ----------------------------------------------- canvas.js: pointer handlers

\* window.addEventListener("pointermove", handlePointermove);
\* window.addEventListener("pointerup", handlePointerup);
\* window.removeEventListener("pointermove", changeCursor);
\* handlePointermove is therefore always registered before changeCursor when
\* both are, and runs first.
startGesture(ls) ==
  (ls \cup {"handlePointermove", "handlePointerup"}) \ {"changeCursor"}

\* handlePointerdown as it would be with the test for a resize handle made
\* before the test for a move.
handlePointerdownResizeFirst(ev) ==
  LET x == Q(ev.x)
      y == Q(ev.y)
      drawn == areaDrawn(area)
      dir == setDirection(area, x, y)
  IN  IF ev.which # 1 \/ panelVisible
        THEN UNCHANGED <<eventToEnable, listeners, direction, keepMask,
                         pointerPosition, area, rafQueue, cropVisible,
                         forcedDowns>>
      ELSE IF cutModeEnabled
        THEN /\ eventToEnable' = "resize"
             /\ listeners' = startGesture(listeners)
             /\ forcedDowns' = forcedDowns + 1
             /\ UNCHANGED <<direction, keepMask, pointerPosition, area,
                            rafQueue, cropVisible>>
      ELSE /\ CanRequest
           /\ UNCHANGED forcedDowns
           /\ direction' = dir
           /\ keepMask' = drawn
           /\ IF ev.shiftKey \/ selectionDisabled
                THEN /\ pointerPosition' = Some(getTransformedPoint(transform, x, y))
                     /\ eventToEnable' = "drag"
                     /\ area' = area
              ELSE IF dir # "" /\ drawn
                THEN /\ eventToEnable' = "resize"
                     /\ UNCHANGED <<pointerPosition, area>>
              ELSE IF (ev.ctrlKey \/ isMobile) /\ drawn /\ isInsideArea(area, x, y)
                THEN /\ pointerPosition' =
                          Some([x |-> Sub(x, area.x), y |-> Sub(y, area.y)])
                     /\ eventToEnable' = "move"
                     /\ area' = area
              ELSE /\ area' = resetArea(x, y)
                   /\ eventToEnable' = "select"
                   /\ UNCHANGED pointerPosition
           /\ rafQueue' = requestAnimationFrame(rafQueue, "drawCanvas")
           /\ cropVisible' = FALSE
           /\ listeners' = startGesture(listeners)

\* handlePointerdown as it would be if cut mode forced only the first
\* pointer-down after its button was clicked.
handlePointerdownForcedOnce(ev) ==
  LET x == Q(ev.x)
      y == Q(ev.y)
      drawn == areaDrawn(area)
      dir == setDirection(area, x, y)
  IN  IF ev.which # 1 \/ panelVisible
        THEN UNCHANGED <<eventToEnable, listeners, direction, keepMask,
                         pointerPosition, area, rafQueue, cropVisible,
                         forcedDowns>>
      ELSE IF cutModeEnabled /\ forcedDowns = 0
        THEN /\ eventToEnable' = "resize"
             /\ listeners' = startGesture(listeners)
             /\ forcedDowns' = forcedDowns + 1
             /\ UNCHANGED <<direction, keepMask, pointerPosition, area,
                            rafQueue, cropVisible>>
      ELSE /\ CanRequest
           /\ UNCHANGED forcedDowns
           /\ direction' = dir
           /\ keepMask' = drawn
           /\ IF ev.shiftKey \/ selectionDisabled
                THEN /\ pointerPosition' = Some(getTransformedPoint(transform, x, y))
                     /\ eventToEnable' = "drag"
                     /\ area' = area
              ELSE IF (ev.ctrlKey \/ isMobile) /\ drawn /\ isInsideArea(area, x, y)
                THEN /\ pointerPosition' =
                          Some([x |-> Sub(x, area.x), y |-> Sub(y, area.y)])
                     /\ eventToEnable' = "move"
                     /\ area' = area
              ELSE IF dir # "" /\ drawn
                THEN /\ eventToEnable' = "resize"
                     /\ UNCHANGED <<pointerPosition, area>>
              ELSE /\ area' = resetArea(x, y)
                   /\ eventToEnable' = "select"
                   /\ UNCHANGED pointerPosition
           /\ rafQueue' = requestAnimationFrame(rafQueue, "drawCanvas")
           /\ cropVisible' = FALSE
           /\ listeners' = startGesture(listeners)

\* handlePointerdown(event), event = [x, y, which, shiftKey, ctrlKey]
handlePointerdown(ev) ==
  LET x == Q(ev.x)
      y == Q(ev.y)
      drawn == areaDrawn(area)
      dir == setDirection(area, x, y)
  IN  IF ev.which # 1 \/ panelVisible
        THEN UNCHANGED <<eventToEnable, listeners, direction, keepMask,
                         pointerPosition, area, rafQueue, cropVisible,
                         forcedDowns>>
      ELSE IF cutModeEnabled
        THEN /\ eventToEnable' = "resize"
             /\ listeners' = startGesture(listeners)
             /\ forcedDowns' = forcedDowns + 1
             /\ UNCHANGED <<direction, keepMask, pointerPosition, area,
                            rafQueue, cropVisible>>
      ELSE /\ CanRequest
           /\ UNCHANGED forcedDowns
           /\ direction' = dir
           /\ keepMask' = drawn
           /\ IF ev.shiftKey \/ selectionDisabled
                THEN /\ pointerPosition' = Some(getTransformedPoint(transform, x, y))
                     /\ eventToEnable' = "drag"
                     /\ area' = area
              ELSE IF (ev.ctrlKey \/ isMobile) /\ drawn /\ isInsideArea(area, x, y)
                THEN /\ pointerPosition' =
                          Some([x |-> Sub(x, area.x), y |-> Sub(y, area.y)])
                     /\ eventToEnable' = "move"
                     /\ area' = area
              ELSE IF dir # "" /\ drawn
                THEN /\ eventToEnable' = "resize"
                     /\ UNCHANGED <<pointerPosition, area>>
              ELSE /\ area' = resetArea(x, y)
                   /\ eventToEnable' = "select"
                   /\ UNCHANGED pointerPosition
           /\ rafQueue' = requestAnimationFrame(rafQueue, "drawCanvas")
           /\ cropVisible' = FALSE
           /\ listeners' = startGesture(listeners)

\* handlePointermove as it would be without its test of handlingMove: every
\* move mutates and requests a redraw.
handlePointermoveEvery(ev) ==
  LET x == IF ev.x > 0 THEN Q(ev.x) ELSE Zero
      y == IF ev.y > 0 THEN Q(ev.y) ELSE Zero
  IN  /\ CanRequest
      /\ handlingMove' = TRUE
      /\ area' = CASE eventToEnable = "select" -> selectArea(area, x, y)
                   [] eventToEnable = "resize" ->
                        resizeArea(area, direction, x, y)
                   [] eventToEnable = "move" ->
                        moveArea(area, pointerPosition, transform,
                                 canvasImage, snapArea, x, y)
                   [] OTHER -> area
      /\ transform' = IF eventToEnable = "drag"
                        THEN dragImage(transform, pointerPosition, x, y)
                        ELSE transform
      /\ BoundedTransform(transform')
      /\ rafQueue' = requestAnimationFrame(rafQueue, "moveDraw")

\* handlePointermove({ clientX, clientY })
handlePointermove(ev) ==
  IF handlingMove
    THEN UNCHANGED <<handlingMove, area, transform, rafQueue>>
    ELSE LET x == IF ev.x > 0 THEN Q(ev.x) ELSE Zero
             y == IF ev.y > 0 THEN Q(ev.y) ELSE Zero
         IN  /\ CanRequest
             /\ handlingMove' = TRUE
             /\ area' = CASE eventToEnable = "select" -> selectArea(area, x, y)
                          [] eventToEnable = "resize" ->
                               resizeArea(area, direction, x, y)
                          [] eventToEnable = "move" ->
                               moveArea(area, pointerPosition, transform,
                                        canvasImage, snapArea, x, y)
                          [] OTHER -> area
             /\ transform' = IF eventToEnable = "drag"
                               THEN dragImage(transform, pointerPosition, x, y)
                               ELSE transform
             /\ BoundedTransform(transform')
             /\ rafQueue' = requestAnimationFrame(rafQueue, "moveDraw")

\* changeCursor(event): detects the direction at the pointer unless Ctrl is
\* held.  It runs after handlePointermove and so reads the Area that left.
changeCursor(ev) ==
  direction' = IF ev.ctrlKey THEN direction
               ELSE setDirection(area', Q(ev.x), Q(ev.y))

\* handlePointerup as it would be without eventToEnable = "".
handlePointerupSameGesture ==
  /\ eventToEnable' = eventToEnable
  /\ IF areaDrawn(area)
       THEN /\ cropVisible' = TRUE
            /\ listeners' = (listeners \cup {"changeCursor"})
                              \ {"handlePointermove", "handlePointerup"}
            /\ UNCHANGED <<keepMask, screen, cropPanelResets>>
       ELSE /\ keepMask' = FALSE
            /\ screen' = drawImage(canvasImage)
            /\ cropPanelResets' = 1 - cropPanelResets
            /\ listeners' = listeners \ {"handlePointermove", "handlePointerup"}
            /\ UNCHANGED cropVisible

\* handlePointerup()
handlePointerup ==
  /\ eventToEnable' = ""
  /\ IF areaDrawn(area)
       THEN \* allowCropAreaModification()
            /\ cropVisible' = TRUE
            /\ listeners' = (listeners \cup {"changeCursor"})
                              \ {"handlePointermove", "handlePointerup"}
            /\ UNCHANGED <<keepMask, screen, cropPanelResets>>
       ELSE /\ keepMask' = FALSE
            /\ screen' = drawImage(canvasImage)
            /\ cropPanelResets' = 1 - cropPanelResets
            /\ listeners' = listeners \ {"handlePointermove", "handlePointerup"}
            /\ UNCHANGED cropVisible

\* handleDoubleClick()
handleDoubleClick ==
  IF ~areaDrawn(area)
    THEN UNCHANGED <<area, rafQueue>>
    ELSE /\ CanRequest
         /\ area' = snapToImageEdge(area, direction, transform, canvasImage)
         /\ rafQueue' = requestAnimationFrame(rafQueue, "drawCanvas")

\* ------------------------------------------------------- events: the pointer

\* pointerdown on the canvas (the listener is added by initCanvasElement)
PointerDown(ev) ==
  /\ Event
  /\ canvas
  /\ handlePointerdown(ev)
  /\ UNCHANGED <<uploadVars, cropVars, externVars, flagVars, canvas,
                 canvasImage, pendingSrc, cutModeEnabled, handlingMove, moves,
                 screen, transform, cropPanelResets>>

\* pointermove on the window: every registered listener runs, in order
PointerMove(ev) ==
  /\ Event
  /\ IF "handlePointermove" \in listeners
       THEN /\ moves < MaxMoves
            /\ moves' = moves + 1
            /\ handlePointermove(ev)
       ELSE UNCHANGED <<moves, handlingMove, area, transform, rafQueue>>
  /\ IF "changeCursor" \in listeners
       THEN changeCursor(ev)
       ELSE UNCHANGED direction
  /\ UNCHANGED <<forcedDowns, uploadVars, cropVars, externVars, flagVars, canvas,
                 canvasImage, pendingSrc, cutModeEnabled, screen,
                 cropPanelResets, pointerPosition, eventToEnable, keepMask,
                 cropVisible, listeners>>

\* pointerup on the window
PointerUp ==
  /\ Event
  /\ "handlePointerup" \in listeners
  /\ handlePointerup
  /\ UNCHANGED <<forcedDowns, uploadVars, cropVars, externVars, flagVars, canvas,
                 canvasImage, pendingSrc, cutModeEnabled, handlingMove, moves,
                 transform, area, direction, pointerPosition, rafQueue>>

\* dblclick on the canvas
DoubleClick ==
  /\ Event
  /\ canvas
  /\ handleDoubleClick
  /\ UNCHANGED <<forcedDowns, uploadVars, cropVars, externVars, flagVars, canvas,
                 canvasImage, pendingSrc, cutModeEnabled, handlingMove, moves,
                 screen, transform, direction, pointerPosition, eventToEnable,
                 keepMask, cropVisible, listeners, cropPanelResets>>

\* An animation frame: every callback requested since the last one runs.
\* Each runs drawCanvas; handlePointermove's then clears handlingMove.
AnimationFrame ==
  /\ Callback
  /\ rafQueue # <<>>
  /\ rafQueue' = <<>>
  /\ moves' = 0
  /\ screen' = IF canvas THEN drawCanvas(canvasImage, area, keepMask) ELSE screen
  /\ handlingMove' = IF canvas /\ Count(rafQueue, "moveDraw") > 0
                       THEN FALSE ELSE handlingMove
  /\ UNCHANGED <<forcedDowns, uploadVars, cropVars, externVars, flagVars, canvas,
                 canvasImage, pendingSrc, cutModeEnabled, transform, area,
                 direction, pointerPosition, eventToEnable, keepMask,
                 cropVisible, listeners, cropPanelResets>>

\* --------------------------------------- canvas.js: buttons and the keyboard

\* allowCropAreaModification()
allowCropAreaModification ==
  /\ cropVisible' = TRUE
  /\ listeners' = listeners \cup {"changeCursor"}

\* The click handler of js-cut-mode-btn
cutModeClick ==
  /\ cutModeEnabled' = ~cutModeEnabled
  /\ forcedDowns' = 0
  /\ IF cutModeEnabled'
       THEN /\ area' = imageArea(transform, canvasImage)
            /\ allowCropAreaModification
       ELSE /\ area' = resetArea(Zero, Zero)
            /\ UNCHANGED <<cropVisible, listeners>>
  /\ rafQueue' = requestAnimationFrame(rafQueue, "drawCanvas")

\* The keydown handler of the window, for Ctrl+A
selectAllKeydown ==
  /\ area' = imageArea(transform, canvasImage)
  /\ rafQueue' = requestAnimationFrame(rafQueue, "drawCanvas")
  /\ allowCropAreaModification

\* The controls of the editor answer once initCanvas has shown the editor.
CutModeClick ==
  /\ Event
  /\ canvas
  /\ CanRequest
  /\ cutModeClick
  /\ UNCHANGED <<uploadVars, cropVars, externVars, flagVars, canvas,
                 canvasImage, pendingSrc, handlingMove, moves, screen,
                 transform, direction, pointerPosition, eventToEnable,
                 keepMask, cropPanelResets>>

SelectAllKeydown ==
  /\ Event
  /\ canvas
  /\ CanRequest
  /\ selectAllKeydown
  /\ UNCHANGED <<forcedDowns, uploadVars, cropVars, externVars, flagVars, canvas,
                 canvasImage, pendingSrc, cutModeEnabled, handlingMove, moves,
                 screen, transform, direction, pointerPosition, eventToEnable,
                 keepMask, cropPanelResets>>

\* The click handler of selectionToggleBtn
SelectionToggleClick ==
  /\ Event
  /\ canvas
  /\ selectionDisabled' = ~selectionDisabled
  /\ UNCHANGED <<forcedDowns, uploadVars, cropVars, externVars, snapArea, canvas,
                 canvasImage, pendingSrc, cutModeEnabled, handlingMove, moves,
                 screen, transform, area, direction, pointerPosition,
                 eventToEnable, keepMask, cropVisible, listeners, rafQueue,
                 cropPanelResets>>

\* The change handler of js-snap-checkbox
SnapChange ==
  /\ Event
  /\ canvas
  /\ snapArea' = ~snapArea
  /\ UNCHANGED <<forcedDowns, uploadVars, cropVars, externVars, selectionDisabled, canvas,
                 canvasImage, pendingSrc, cutModeEnabled, handlingMove, moves,
                 screen, transform, area, direction, pointerPosition,
                 eventToEnable, keepMask, cropVisible, listeners, rafQueue,
                 cropPanelResets>>

\* handleScroll(event): zoom about the pointer, by 0.8 when deltaY > 0 and by
\* 1.25 otherwise.  zoom.js redraws after it has set the Transform.
handleScroll(ev) ==
  /\ transform' = applyScaleMultiplier(
                    transform, IF ev.deltaY > 0 THEN Rat(4, 5) ELSE Rat(5, 4),
                    Q(ev.x), Q(ev.y))
  /\ screen' = drawCanvas(canvasImage, area, keepMask)

Wheel(ev) ==
  /\ Event
  /\ canvas
  /\ handleScroll(ev)
  /\ BoundedTransform(transform')
  /\ UNCHANGED <<forcedDowns, uploadVars, cropVars, externVars, flagVars, canvas,
                 canvasImage, pendingSrc, cutModeEnabled, handlingMove, moves,
                 area, direction, pointerPosition, eventToEnable, keepMask,
                 cropVisible, listeners, rafQueue, cropPanelResets>>

\* ---------------------------- rotation.js, flip.js, top-bar.js (from the spec)

Rotations == {0, 1}

\* The rotation control sets another angle (counted in quarter turns).
Rotate(r) ==
  /\ Event
  /\ canvas
  /\ r # rotation
  /\ rotation' = r
  /\ UNCHANGED <<forcedDowns, uploadVars, cropVars, flagVars, flip, panelVisible, isMobile,
                 canvas, canvasImage, pendingSrc, cutModeEnabled, handlingMove,
                 moves, screen, transform, area, direction, pointerPosition,
                 eventToEnable, keepMask, cropVisible, listeners, rafQueue,
                 cropPanelResets>>

\* The flip controls reflect the image horizontally or vertically.
Flip(horizontal) ==
  /\ Event
  /\ canvas
  /\ flip' = IF horizontal THEN [flip EXCEPT !.flipH = -@]
                           ELSE [flip EXCEPT !.flipV = -@]
  /\ UNCHANGED <<forcedDowns, uploadVars, cropVars, flagVars, rotation, panelVisible,
                 isMobile, canvas, canvasImage, pendingSrc, cutModeEnabled,
                 handlingMove, moves, screen, transform, area, direction,
                 pointerPosition, eventToEnable, keepMask, cropVisible,
                 listeners, rafQueue, cropPanelResets>>

\* A panel of the top bar opens or closes.
PanelToggle ==
  /\ Event
  /\ canvas
  /\ panelVisible' = ~panelVisible
  /\ UNCHANGED <<forcedDowns, uploadVars, cropVars, flagVars, rotation, flip, isMobile,
                 canvas, canvasImage, pendingSrc, cutModeEnabled, handlingMove,
                 moves, screen, transform, area, direction, pointerPosition,
                 eventToEnable, keepMask, cropVisible, listeners, rafQueue,
                 cropPanelResets>>

\* ------------------------------------------- canvas.js: loading an image

\* loadImageFile(blobUrl): the synchronous part.  The decode that
\* canvasImage.src = blobUrl starts completes later (CanvasImageOnload); a
\* decode still pending is abandoned.
loadImageFile(img) ==
  /\ keepMask' = FALSE
  /\ cropVisible' = FALSE
  /\ rotation' = 0
  /\ area' = resetArea(Zero, Zero)
  /\ pendingSrc' = Some(img)
  /\ cutModeEnabled' = FALSE

\* canvasImage.onload: scaleImageToFitCanvas(canvasImage), which sets the
\* Transform and redraws.
CanvasImageOnload ==
  /\ Callback
  /\ pendingSrc # None
  /\ canvasImage' = pendingSrc[1]
  /\ pendingSrc' = None
  /\ transform' = scaleImageToFitCanvas(canvasImage')
  /\ screen' = IF canvas THEN drawCanvas(canvasImage', area, keepMask) ELSE screen
  /\ UNCHANGED <<forcedDowns, uploadVars, cropVars, externVars, flagVars, canvas,
                 cutModeEnabled, handlingMove, moves, area, direction,
                 pointerPosition, eventToEnable, keepMask, cropVisible,
                 listeners, rafQueue, cropPanelResets>>

\* ------------------------------------------------------ uploaded-images.js

\* filterOutNonImages(files)
RECURSIVE filterOutNonImages(_)
filterOutNonImages(files) ==
  IF files = <<>> THEN <<>>
  ELSE (IF Head(files).image THEN <<Head(files)>> ELSE <<>>)
         \o filterOutNonImages(Tail(files))

\* readImages(imagesToRead) up to its await: the first file is spliced off
\* and its decode awaited.  owner is the crop request awaiting the promise
\* readImages returns, 0 for none.
readImages(rs, imagesToRead, owner) ==
  Append(rs, [file |-> Head(imagesToRead), rest |-> Tail(imagesToRead),
              owner |-> owner])

\* Files whose decode readImages still awaits or has yet to start.
RECURSIVE Pending(_)
Pending(rs) ==
  IF rs = <<>> THEN 0 ELSE 1 + Len(Head(rs).rest) + Pending(Tail(rs))

Remove(q, i) == [k \in 1..(Len(q) - 1) |-> IF k < i THEN q[k] ELSE q[k + 1]]

\* readFiles(files), from handleFileUpload or the drop handler
ReadFiles(files) ==
  LET list == filterOutNonImages(files)
  IN  /\ Event
      /\ Len(images) + Pending(reads) + Len(list) <= MaxImages
      /\ reads' = IF list # <<>> THEN readImages(reads, list, 0) ELSE reads
      /\ UNCHANGED <<forcedDowns, images, activeImageIndex, activeListItem, cropVars,
                     externVars, flagVars, canvas, canvasImage, pendingSrc,
                     cutModeEnabled, handlingMove, moves, screen, transform,
                     area, direction, pointerPosition, eventToEnable, keepMask,
                     cropVisible, listeners, rafQueue, cropPanelResets>>

\* readImages after its await: the decode of reads[i].file has completed.
\* The image is pushed and rendered; the rest is read by a call that is not
\* awaited; the first upload to end starts the canvas (doneReadingImages,
\* initCanvas).  Then the returned promise resolves, and a crop request in
\* cut mode that awaits it goes on: loadImageFile, setActiveImage,
\* disableCutMode and the end of the request.
ReadImageOnload(i) ==
  LET r == reads[i]
      left == Remove(reads, i)
      first == r.rest = <<>> /\ activeListItem = None
      last == Len(images) \* the index of the image pushed
  IN  /\ Callback
      /\ r.file.ok
      /\ images' = Append(images, r.file)
      /\ reads' = IF r.rest # <<>> THEN readImages(left, r.rest, 0) ELSE left
      /\ IF r.owner # 0
           THEN /\ loadImageFile(images'[last + 1])
                /\ activeImageIndex' = last
                /\ activeListItem' = Some(last)
                /\ crops' = SelectSeq(crops, LAMBDA c : c.id # r.owner)
                /\ UNCHANGED canvas
         ELSE IF first
           THEN /\ activeListItem' = Some(0)
                /\ canvas' = TRUE
                /\ loadImageFile(images'[1])
                /\ UNCHANGED <<activeImageIndex, crops>>
         ELSE UNCHANGED <<activeImageIndex, activeListItem, crops, canvas,
                          keepMask, cropVisible, rotation, area, pendingSrc,
                          cutModeEnabled>>
      /\ UNCHANGED <<forcedDowns, settled, folder, flagVars, flip, panelVisible, isMobile,
                     canvasImage, handlingMove, moves, screen, transform,
                     direction, pointerPosition, eventToEnable, listeners,
                     rafQueue, cropPanelResets>>

\* The click handler of the upload panel, for the list item of images[index]
ModalClick(index) ==
  /\ Event
  /\ canvas
  /\ panelVisible
  /\ index < Len(images)
  /\ IF index # activeImageIndex
       THEN /\ activeImageIndex' = index
            /\ activeListItem' = Some(index)
            /\ cropPanelResets' = 1 - cropPanelResets
       ELSE UNCHANGED <<activeImageIndex, activeListItem, cropPanelResets>>
  /\ loadImageFile(images[index + 1])
  /\ UNCHANGED <<forcedDowns, images, reads, cropVars, flagVars, flip, panelVisible,
                 isMobile, canvas, canvasImage, handlingMove, moves, screen,
                 transform, direction, pointerPosition, eventToEnable,
                 listeners, rafQueue>>

\* ------------------------------------------------- canvas.js: the crop button

\* getUniqueImageName(name), of image-folder.js: a name no image has yet
getUniqueImageName(name) == name \o "'"

\* The least request number no crop request in flight has.
FreeId == CHOOSE n \in 1..(Len(crops) + 1) :
            /\ \A k \in 1..Len(crops) : crops[k].id # n
            /\ \A m \in 1..(n - 1) : \E k \in 1..Len(crops) : crops[k].id = m

NoCanvas == [error |-> "", width |-> 0, height |-> 0, raster |-> NoRaster]

\* What getCanvasSlice reads when it is called: kept with the request, to
\* state what its result depends on.
Snapshot ==
  [transform |-> transform, area |-> area, rotation |-> rotation, flip |-> flip]

\* The click handler of cropBtnElement up to image.onload: the active image
\* is read and its decode started.  The button answers while it is visible.
\* cutRequested records whether cut mode was enabled at the click, and
\* requestedAt the Transform and the Area of the click; the handler reads
\* cutModeEnabled in image.onload (cut) and getCroppedCanvas reads the
\* Transform and the Area there (at).
CropClick ==
  /\ Event
  /\ canvas
  /\ cropVisible
  /\ activeImageIndex < Len(images)
  /\ Len(crops) < MaxCrops
  /\ crops' = Append(crops, [id |-> FreeId, file |-> images[activeImageIndex + 1],
                             stage |-> "decoding", cut |-> FALSE,
                             cutRequested |-> cutModeEnabled,
                             requestedAt |-> Snapshot,
                             at |-> None, canvas |-> NoCanvas])
  /\ UNCHANGED <<forcedDowns, uploadVars, settled, folder, externVars, flagVars, canvas,
                 canvasImage, pendingSrc, cutModeEnabled, handlingMove, moves,
                 screen, transform, area, direction, pointerPosition,
                 eventToEnable, keepMask, cropVisible, listeners, rafQueue,
                 cropPanelResets>>

\* getCanvasSlice(image, type) up to toBlob.  getCroppedCanvas runs in the
\* promise's executor: what it throws rejects the promise.
getCanvasSlice(c) ==
  LET croppedCanvas == getCroppedCanvas(c.file, transform, area, rotation, flip)
  IN  IF croppedCanvas.error # ""
        THEN [c EXCEPT !.stage = "rejected", !.at = Some(Snapshot),
                       !.canvas = croppedCanvas]
        ELSE [c EXCEPT !.stage = "encoding", !.at = Some(Snapshot),
                       !.canvas = croppedCanvas]

\* image.onload of the crop handler, up to its first await.  Both branches
\* call getCanvasSlice; a rejection ends the handler (nothing catches it).
CropImageOnload(j) ==
  LET c == getCanvasSlice([crops[j] EXCEPT !.cut = cutModeEnabled])
  IN  /\ Callback
      /\ crops[j].stage = "decoding"
      /\ cutModeEnabled => Len(images) + Pending(reads) < MaxImages + MaxCrops
      /\ IF c.stage = "rejected"
           THEN /\ crops' = Remove(crops, j)
                /\ settled' = Some([status |-> "rejected", at |-> c.at[1],
                                    value |-> c.canvas, file |-> ""])
           ELSE /\ crops' = [crops EXCEPT ![j] = c]
                /\ UNCHANGED settled
      /\ UNCHANGED <<forcedDowns, uploadVars, folder, externVars, flagVars, canvas,
                     canvasImage, pendingSrc, cutModeEnabled, handlingMove,
                     moves, screen, transform, area, direction,
                     pointerPosition, eventToEnable, keepMask, cropVisible,
                     listeners, rafQueue, cropPanelResets>>

\* The object as it would be if the callback took the block anew, from the
\* Transform and the Area of the time it runs.
canvasSliceLate(c, blob) ==
  [status |-> "resolved", at |-> c.at[1],
   value |-> getCroppedCanvas(c.file, transform, area, rotation, flip),
   file |-> blob]

\* The object getCanvasSlice resolves with in toBlob's callback:
\* { file: blob, width: croppedCanvas.width, height: croppedCanvas.height }
canvasSlice(c, blob) ==
  [status |-> "resolved", at |-> c.at[1], value |-> c.canvas, file |-> blob]

\* toBlob's callback and what the crop handler does after its await.  blob
\* is "blob", or "null" when the canvas could not be encoded.  In cut mode
\* the raster becomes a new file that readImages is asked to read;
\* otherwise it is handed to renderAddedFolderImage.
ToBlobCallback(j, blob) ==
  LET c == crops[j]
      slice == canvasSlice(c, blob)
      newFile == [name |-> getUniqueImageName(c.file.name),
                  type |-> c.file.type, image |-> TRUE,
                  width |-> slice.value.width, height |-> slice.value.height,
                  ok |-> blob # "null"]
  IN  /\ Callback
      /\ c.stage = "encoding"
      /\ settled' = Some(slice)
      /\ IF c.cut
           THEN /\ crops' = [crops EXCEPT ![j].stage = "reading"]
                /\ reads' = readImages(reads, <<newFile>>, c.id)
                /\ UNCHANGED folder
           ELSE /\ crops' = Remove(crops, j)
                /\ folder' = Some([name |-> getUniqueImageName(c.file.name),
                                   type |-> c.file.type, file |-> slice.file,
                                   width |-> slice.value.width,
                                   height |-> slice.value.height])
                /\ UNCHANGED reads
      /\ UNCHANGED <<forcedDowns, images, activeImageIndex, activeListItem, externVars,
                     flagVars, canvas, canvasImage, pendingSrc, cutModeEnabled,
                     handlingMove, moves, screen, transform, area, direction,
                     pointerPosition, eventToEnable, keepMask, cropVisible,
                     listeners, rafQueue, cropPanelResets>>

\* ------------------------------------------------------------- the program

\* The files the user may upload: two images that fit the viewport at
\* different scales, and a file that is no image.
FileA == [name |-> "a", type |-> "image/png", image |-> TRUE,
          width |-> 40, height |-> 20, ok |-> TRUE]
FileB == [name |-> "b", type |-> "image/jpeg", image |-> TRUE,
          width |-> 10, height |-> 20, ok |-> TRUE]
FileT == [name |-> "t", type |-> "text/plain", image |-> FALSE,
          width |-> 0, height |-> 0, ok |-> FALSE]
\* An image that fills the viewport: it fits at scale 1, translation 0.
FileC == [name |-> "c", type |-> "image/png", image |-> TRUE,
          width |-> 40, height |-> 40, ok |-> TRUE]
Uploads == {<<FileA>>, <<FileB, FileA>>, <<FileT, FileB>>, <<FileT>>}

\* Pointer events at the positions P (pairs of clientX and clientY)
DownEvents(P) ==
  {[x |-> p[1], y |-> p[2], which |-> w, shiftKey |-> s, ctrlKey |-> c] :
     p \in P, w \in {1, 3}, s \in BOOLEAN, c \in BOOLEAN}
MoveEvents(P) ==
  {[x |-> p[1], y |-> p[2], ctrlKey |-> c] : p \in P, c \in BOOLEAN}
WheelEvents(P) ==
  {[x |-> p[1], y |-> p[2], deltaY |-> d] : p \in P, d \in {-100, 100}}

\* The image A fills the width of the viewport: (20, 20) is inside it and
\* away from its edges, (38, 28) is by its lower right corner, (-5, 35) is
\* left of the viewport.
Points == {<<20, 20>>, <<38, 28>>, <<-5, 35>>}
\* The wheel turns over the middle of the viewport.
WheelPoints == {<<20, 20>>}

Next ==
  \/ \E files \in Uploads : ReadFiles(files)
  \/ \E i \in 1..Len(reads) : ReadImageOnload(i)
  \/ \E index \in 0..(MaxImages + MaxCrops - 1) : ModalClick(index)
  \/ CanvasImageOnload
  \/ \E ev \in DownEvents(Points) : PointerDown(ev)
  \/ \E ev \in MoveEvents(Points) : PointerMove(ev)
  \/ PointerUp
  \/ DoubleClick
  \/ AnimationFrame
  \/ \E ev \in WheelEvents(WheelPoints) : Wheel(ev)
  \/ CutModeClick
  \/ SelectAllKeydown
  \/ SelectionToggleClick
  \/ SnapChange
  \/ \E r \in Rotations : Rotate(r)
  \/ \E h \in BOOLEAN : Flip(h)
  \/ PanelToggle
  \/ CropClick
  \/ \E j \in 1..Len(crops) : CropImageOnload(j)
  \/ \E j \in 1..Len(crops), blob \in {"blob", "null"} : ToBlobCallback(j, blob)

Spec == Init /\ [][Next]_vars

\* ----------------------------------------------------- parts of the program

\* The editor showing the first of the uploaded images imgs, decoded and
\* fitted: what ReadFiles(imgs), ReadImageOnload for each of them and
\* CanvasImageOnload leave of the collection, the canvas and the controls
\* outside canvas.js, with n input events to come.
Loaded(imgs, mobile, n) ==
  /\ images = imgs
  /\ activeImageIndex = 0
  /\ activeListItem = Some(0)
  /\ reads = <<>>
  /\ canvas = TRUE
  /\ canvasImage = imgs[1]
  /\ pendingSrc = None
  /\ selectionDisabled = FALSE
  /\ cutModeEnabled = FALSE
  /\ handlingMove = FALSE
  /\ rafQueue = <<>>
  /\ moves = 0
  /\ forcedDowns = 0
  /\ crops = <<>>
  /\ settled = None
  /\ folder = None
  /\ transform = scaleImageToFitCanvas(imgs[1])
  /\ rotation = 0
  /\ flip = [flipH |-> 1, flipV |-> 1]
  /\ panelVisible = FALSE
  /\ cropPanelResets = 0
  /\ isMobile = mobile
  /\ budget = n

\* That editor before any gesture.
Editor(imgs, mobile, n) ==
  /\ Loaded(imgs, mobile, n)
  /\ pointerPosition = None
  /\ eventToEnable = ""
  /\ keepMask = FALSE
  /\ snapArea = FALSE
  /\ cropVisible = FALSE
  /\ listeners = {}
  /\ screen = drawCanvas(imgs[1], resetArea(Zero, Zero), FALSE)
  /\ area = resetArea(Zero, Zero)
  /\ direction = ""

\* The pointer, the animation frames and the commands that set the Area.
InitGesture == \E mobile \in BOOLEAN : Editor(<<FileA>>, mobile, StepsGesture)

NextGesture ==
  \/ \E ev \in DownEvents(Points) : PointerDown(ev)
  \/ \E ev \in MoveEvents(Points) : PointerMove(ev)
  \/ PointerUp
  \/ DoubleClick
  \/ AnimationFrame
  \/ CutModeClick
  \/ SelectAllKeydown
  \/ SelectionToggleClick
  \/ PanelToggle

SpecGesture == InitGesture /\ [][NextGesture]_vars

\* Moving with snap.  The editor in a moving gesture with snap enabled: the
\* state after the snap checkbox was ticked, the Area a was drawn, Ctrl was
\* held and the pointer pressed inside a at the offset grab from its corner,
\* and the frame that pointer-down requested has run.
Moving(img, a, grab) ==
  /\ Loaded(<<img>>, FALSE, StepsSnap)
  /\ pointerPosition = Some(grab)
  /\ eventToEnable = "move"
  /\ keepMask = TRUE
  /\ snapArea = TRUE
  /\ cropVisible = FALSE
  /\ listeners = {"handlePointermove", "handlePointerup"}
  /\ screen = drawCanvas(img, a, TRUE)
  /\ area = a
  /\ direction = setDirection(a, Add(a.x, grab.x), Add(a.y, grab.y))

\* Areas of width 10 and height 6 over the middle of the viewport, drawn in
\* each of the four directions, each grabbed 2 and 1 pixels from its corner.
SnapAreas ==
  {[x |-> Q(20 - 5 * sx), y |-> Q(20 - 3 * sy),
    width |-> Q(10 * sx), height |-> Q(6 * sy)] : sx \in {-1, 1}, sy \in {-1, 1}}
SnapGrab(a) ==
  [x |-> Q(IF Gt(a.width, Zero) THEN 2 ELSE -2),
   y |-> Q(IF Gt(a.height, Zero) THEN 1 ELSE -1)]

\* Pointer positions that bring the edges of those Areas to 7, 8 and 9
\* pixels from the boundaries of image A (x = 0 and 40, y = 10 and 30).
SnapPoints ==
  {<<x, y>> : x \in {9, 10, 16, 24, 25, 30}, y \in {3, 4, 22, 23, 33}}
\* Ctrl stays held while the Area is moved.
SnapEvents == {[x |-> p[1], y |-> p[2], ctrlKey |-> TRUE] : p \in SnapPoints}

InitSnap ==
  \E img \in {FileA, FileB}, a \in SnapAreas : Moving(img, a, SnapGrab(a))

NextSnap ==
  \/ \E ev \in SnapEvents : PointerMove(ev)
  \/ AnimationFrame

SpecSnap == InitSnap /\ [][NextSnap]_vars

\* The handles.  The editor with the Area a selected: the state after a
\* pointer-down at the corner (a.x, a.y), a pointer-move to the opposite
\* corner, the pointer-up and the frames they requested.
Selected(img, a, n) ==
  /\ Loaded(<<img>>, FALSE, n)
  /\ pointerPosition = None
  /\ eventToEnable = ""
  /\ keepMask = FALSE
  /\ snapArea = FALSE
  /\ cropVisible = TRUE
  /\ listeners = {"changeCursor"}
  /\ screen = drawCanvas(img, a, FALSE)
  /\ area = a
  /\ direction = ""

\* The rectangle from (10, 11) to (30, 29), selected from its upper left
\* and from its lower right corner.
HandleAreas ==
  {[x |-> Q(10), y |-> Q(11), width |-> Q(20), height |-> Q(18)],
   [x |-> Q(30), y |-> Q(29), width |-> Q(-20), height |-> Q(-18)]}
\* Its corners, the middles of its edges and its centre.
HandlePoints == {<<x, y>> : x \in {10, 20, 30}, y \in {11, 20, 29}}
\* Where the pointer goes from there: inside and outside the image, left of
\* the viewport, and back onto the handles.
HandleTargets == {<<5, 15>>, <<25, 35>>, <<-4, 20>>}
HandleDowns ==
  {[x |-> p[1], y |-> p[2], which |-> 1, shiftKey |-> FALSE, ctrlKey |-> FALSE] :
     p \in HandlePoints}
HandleMoves ==
  {[x |-> p[1], y |-> p[2], ctrlKey |-> FALSE] :
     p \in HandlePoints \cup HandleTargets}

InitHandles ==
  \E img \in {FileA, FileB}, a \in HandleAreas : Selected(img, a, StepsHandles)

NextHandles ==
  \/ \E ev \in HandleDowns : PointerDown(ev)
  \/ \E ev \in HandleMoves : PointerMove(ev)
  \/ PointerUp
  \/ DoubleClick
  \/ AnimationFrame
  \/ CutModeClick

SpecHandles == InitHandles /\ [][NextHandles]_vars

\* Extraction.  The editor with an Area selected and the crop button
\* showing; the crop button, its callbacks, and the events that change the
\* Area, the Transform and cut mode in between.
ExtractAreas ==
  {[x |-> Q(10), y |-> Q(11), width |-> Q(20), height |-> Q(18)],
   [x |-> Q(30), y |-> Q(29), width |-> Q(-18), height |-> Q(-16)],
   [x |-> Q(12), y |-> Q(27), width |-> Q(16), height |-> Q(-14)],
   [x |-> Q(20), y |-> Q(11), width |-> Q(1), height |-> Q(18)]}
ExtractDowns ==
  {[x |-> p[1], y |-> p[2], which |-> 1, shiftKey |-> s, ctrlKey |-> FALSE] :
     p \in {<<20, 20>>}, s \in BOOLEAN}
ExtractMoves ==
  {[x |-> p[1], y |-> p[2], ctrlKey |-> FALSE] : p \in {<<5, 15>>, <<25, 35>>}}

InitExtract ==
  \E img \in {FileA, FileB}, a \in ExtractAreas : Selected(img, a, StepsExtract)

NextExtract ==
  \/ CropClick
  \/ \E j \in 1..Len(crops) : CropImageOnload(j)
  \/ \E j \in 1..Len(crops), blob \in {"blob", "null"} : ToBlobCallback(j, blob)
  \/ \E i \in 1..Len(reads) : ReadImageOnload(i)
  \/ CanvasImageOnload
  \/ \E ev \in ExtractDowns : PointerDown(ev)
  \/ \E ev \in ExtractMoves : PointerMove(ev)
  \/ PointerUp
  \/ AnimationFrame
  \/ \E ev \in WheelEvents(WheelPoints) : Wheel(ev)
  \/ CutModeClick
  \/ SelectAllKeydown

SpecExtract == InitExtract /\ [][NextExtract]_vars

\* The region extracted.  The editor with an Area of positive width and
\* height selected over an image, the crop button showing; the crop button
\* and its callbacks, with the zoom, the rotation and the flip changed
\* before and in between.
RegionAreas ==
  {[x |-> Q(10), y |-> Q(11), width |-> Q(20), height |-> Q(18)],
   [x |-> Q(3), y |-> Q(5), width |-> Q(7), height |-> Q(9)],
   [x |-> Q(20), y |-> Q(11), width |-> Q(1), height |-> Q(18)]}

InitRegion ==
  \E img \in {FileA, FileB, FileC}, a \in RegionAreas : Selected(img, a, StepsRegion)

NextRegion ==
  \/ CropClick
  \/ \E j \in 1..Len(crops) : CropImageOnload(j)
  \/ \E j \in 1..Len(crops), blob \in {"blob", "null"} : ToBlobCallback(j, blob)
  \/ \E ev \in WheelEvents(WheelPoints) : Wheel(ev)
  \/ \E r \in Rotations : Rotate(r)
  \/ \E h \in BOOLEAN : Flip(h)

SpecRegion == InitRegion /\ [][NextRegion]_vars

\* Cutting.  The editor with an Area selected; the cut-mode button, Ctrl+A,
\* the crop button and its callbacks, with uploads and clicks on the image
\* list of the upload panel in between.
InitCut ==
  \E img \in {FileA, FileB} :
    Selected(img, [x |-> Q(10), y |-> Q(11), width |-> Q(20), height |-> Q(18)],
             StepsCut)

NextCut ==
  \/ CutModeClick
  \/ SelectAllKeydown
  \/ CropClick
  \/ \E j \in 1..Len(crops) : CropImageOnload(j)
  \/ \E j \in 1..Len(crops), blob \in {"blob", "null"} : ToBlobCallback(j, blob)
  \/ \E i \in 1..Len(reads) : ReadImageOnload(i)
  \/ CanvasImageOnload
  \/ AnimationFrame
  \/ PanelToggle
  \/ \E index \in 0..(MaxImages + MaxCrops - 1) : ModalClick(index)
  \/ \E files \in Uploads : ReadFiles(files)

SpecCut == InitCut /\ [][NextCut]_vars

\* Switching.  The editor with two images uploaded, the first shown and an
\* Area selected over it; the crop button and its callbacks, with clicks on
\* the image list, Ctrl+A and the cut-mode button in between.
InitSwitch ==
  /\ Loaded(<<FileA, FileB>>, FALSE, StepsSwitch)
  /\ pointerPosition = None
  /\ eventToEnable = ""
  /\ keepMask = FALSE
  /\ snapArea = FALSE
  /\ cropVisible = TRUE
  /\ listeners = {"changeCursor"}
  /\ area = [x |-> Q(10), y |-> Q(11), width |-> Q(20), height |-> Q(18)]
  /\ screen = drawCanvas(FileA, area, FALSE)
  /\ direction = ""

NextSwitch ==
  \/ CropClick
  \/ \E j \in 1..Len(crops) : CropImageOnload(j)
  \/ \E j \in 1..Len(crops), blob \in {"blob", "null"} : ToBlobCallback(j, blob)
  \/ \E i \in 1..Len(reads) : ReadImageOnload(i)
  \/ PanelToggle
  \/ \E index \in 0..(MaxImages + MaxCrops - 1) : ModalClick(index)
  \/ CanvasImageOnload
  \/ SelectAllKeydown
  \/ CutModeClick
  \/ AnimationFrame

SpecSwitch == InitSwitch /\ [][NextSwitch]_vars

\* ------------------------------------------------------------------ claims

\* C1.  Redraw coalescing of pointer-moves.  Of the pointer-moves that
\* handlePointermove receives between two animation frames, however many,
\* exactly one redraw is requested: while one or more have been received
\* since the last frame, the animation-frame list holds exactly one of
\* handlePointermove's callbacks and handlingMove is true; while none has,
\* it holds none and handlingMove is false.  The frame that follows runs the
\* requested callbacks together: it paints what drawCanvas paints, empties
\* the list and leaves handlingMove false.
C1Coalesced ==
  /\ moves >= 1 => Count(rafQueue, "moveDraw") = 1 /\ handlingMove
  /\ moves = 0 => Count(rafQueue, "moveDraw") = 0 /\ ~handlingMove
C1Frame ==
  AnimationFrame =>
    /\ screen' = drawCanvas(canvasImage, area, keepMask)
    /\ rafQueue' = <<>>
    /\ ~handlingMove'
C1Theorem == [][C1Coalesced /\ C1Coalesced' /\ C1Frame]_vars
\* Three moves of a gesture since the last frame, one redraw requested.
C1Witness ==
  /\ moves = MaxMoves
  /\ eventToEnable # ""
  /\ Count(rafQueue, "moveDraw") = 1
  /\ handlingMove

\* C2.  Pointer-down classification with cut mode off.  A pointer-down that
\* is not of the primary button, or that arrives while a panel is visible,
\* leaves the gesture state, the grab point, the Area, the Transform,
\* keepMask and the registered listeners as they were.  Any other starts
\* the gesture that is the first match of: Shift held or selection disabled,
\* dragging; Ctrl held or a mobile page, and the Area of non-zero width and
\* height, and the pointer inside the Area, moving; a resize direction
\* detected at the pointer and the Area of non-zero width and height,
\* resizing; otherwise selecting.
C2Gesture(ev) ==
  LET nonEmpty == area.width # Zero /\ area.height # Zero
  IN  IF ev.shiftKey \/ selectionDisabled THEN "drag"
      ELSE IF /\ ev.ctrlKey \/ isMobile
              /\ nonEmpty
              /\ isInsideArea(area, Q(ev.x), Q(ev.y)) THEN "move"
      ELSE IF setDirection(area, Q(ev.x), Q(ev.y)) # "" /\ nonEmpty
        THEN "resize"
      ELSE "select"
C2Classified(ev) ==
  IF ev.which # 1 \/ panelVisible
    THEN UNCHANGED <<eventToEnable, pointerPosition, area, transform,
                     keepMask, listeners>>
    ELSE eventToEnable' = C2Gesture(ev)
C2Theorem ==
  [][\A ev \in DownEvents(Points) :
       PointerDown(ev) /\ ~cutModeEnabled => C2Classified(ev)]_vars
\* A moving gesture begun on a resize handle of the Area: the second rule
\* matched before the third.
C2Witness ==
  /\ eventToEnable = "move"
  /\ direction # ""
  /\ pointerPosition # None
  /\ ~cutModeEnabled

\* C5.  Pointer-up outcome.  A pointer-up leaves the gesture state idle, and
\* does one of two things: with an Area of non-zero width and height it
\* shows the crop button and registers changeCursor, leaving keepMask alone
\* and the crop panel unnotified; otherwise it clears keepMask and notifies
\* resetCropPanelInputs, and neither shows the crop button nor registers
\* changeCursor.  While the gesture state is idle a pointer-move changes
\* neither the Area nor the Transform, and only a pointer-down ends the idle
\* state.
C5Outcome ==
  PointerUp =>
    /\ eventToEnable' = ""
    /\ IF area.width # Zero /\ area.height # Zero
         THEN /\ cropVisible'
              /\ "changeCursor" \in listeners'
              /\ UNCHANGED <<keepMask, cropPanelResets>>
         ELSE /\ ~keepMask'
              /\ cropPanelResets' # cropPanelResets
              /\ cropVisible' = cropVisible
              /\ "changeCursor" \in listeners' => "changeCursor" \in listeners
C5IdleMove ==
  (eventToEnable = "" /\ \E ev \in MoveEvents(Points) : PointerMove(ev))
    => UNCHANGED <<area, transform>>
C5IdleUntilDown ==
  (eventToEnable = "" /\ eventToEnable' # "")
    => \E ev \in DownEvents(Points) : PointerDown(ev)
C5Theorem == [][C5Outcome /\ C5IdleMove /\ C5IdleUntilDown]_vars
\* After the selection from (20, 20) to (38, 28) and its pointer-up, a
\* pointer-move at the lower right corner: changeCursor has detected a
\* handle, the Area is the one selected.
C5Witness ==
  /\ eventToEnable = ""
  /\ area = [x |-> Q(20), y |-> Q(20), width |-> Q(18), height |-> Q(8)]
  /\ cropVisible
  /\ "changeCursor" \in listeners
  /\ "handlePointermove" \notin listeners
  /\ direction # ""

\* C6.  Cut mode forces resizing.  Enabling cut mode sets the Area to the
\* transformed image.  Every pointer-down of the primary button, no panel
\* visible, that arrives while cut mode is enabled starts a resizing gesture
\* directly, whatever Shift, Ctrl, the selection-disabled flag and the
\* pointer position are and however many pointer-downs came before it, and
\* changes neither the Area nor cut mode itself.
C6Seeded ==
  (CutModeClick /\ cutModeEnabled') => area' = imageArea(transform, canvasImage)
C6Forced ==
  \A ev \in DownEvents(Points) :
    (PointerDown(ev) /\ cutModeEnabled /\ ev.which = 1 /\ ~panelVisible)
      => eventToEnable' = "resize" /\ area' = area /\ cutModeEnabled'
C6Theorem == [][C6Seeded /\ C6Forced]_vars
\* The second pointer-down since cut mode was enabled has started a resizing
\* gesture.
C6Witness ==
  /\ cutModeEnabled
  /\ forcedDowns >= 2
  /\ eventToEnable = "resize"
  /\ area = imageArea(transform, canvasImage)
\* C6 as first stated: only the first pointer-down after cut mode is enabled
\* is forced into resizing; those after it are classified by the rules of
\* C2 again.
C6OnlyNext ==
  [][\A ev \in DownEvents(Points) :
       (PointerDown(ev) /\ cutModeEnabled /\ ev.which = 1 /\ ~panelVisible)
         => IF forcedDowns = 0
              THEN eventToEnable' = "resize" /\ area' = area
              ELSE eventToEnable' = C2Gesture(ev)]_vars

\* C3.  Snap tolerance.  With snap enabled, on a pointer-move of a moving
\* gesture and on each axis by itself: when the position without snap
\* (pointer minus grab offset) puts the lesser edge of the Area less than 8
\* pixels from e or f, the Area is placed with that edge on it; otherwise,
\* when it puts the greater edge less than 8 pixels from
\* e + imageWidth * scale or f + imageHeight * scale, the Area is placed
\* with that edge on it; otherwise, and so at 8 pixels or more from both,
\* the Area is placed where the pointer puts it.  Width and height may each
\* be positive or negative.
C3Placed(diff, dimension, low, high) ==
  LET lesser == Min(diff, Add(diff, dimension))
      greater == Max(diff, Add(diff, dimension))
  IN  IF Lt(Dist(lesser, low), Q(8)) THEN Add(diff, Sub(low, lesser))
      ELSE IF Lt(Dist(greater, high), Q(8)) THEN Add(diff, Sub(high, greater))
      ELSE diff
C3Strict(ev) ==
  LET x == IF ev.x > 0 THEN Q(ev.x) ELSE Zero
      y == IF ev.y > 0 THEN Q(ev.y) ELSE Zero
      scale == transform.a
  IN  /\ area'.x = C3Placed(Sub(x, pointerPosition[1].x), area.width,
                            transform.e,
                            Add(transform.e, Mul(Q(canvasImage.width), scale)))
      /\ area'.y = C3Placed(Sub(y, pointerPosition[1].y), area.height,
                            transform.f,
                            Add(transform.f, Mul(Q(canvasImage.height), scale)))
      /\ area'.width = area.width
      /\ area'.height = area.height
C3Theorem ==
  [][\A ev \in SnapEvents :
       (/\ eventToEnable = "move" /\ snapArea /\ ~handlingMove
        /\ "handlePointermove" \in listeners
        /\ PointerMove(ev)) => C3Strict(ev)]_vars
\* Image A at scale 1 (e = 0, f = 10), the Area of width -10 and height 6
\* after a move to (9, 3): the pointer put its left edge 1 pixel from
\* x = 0, where it now lies, and its top edge 8 pixels from y = 10, where
\* it was left, at y = 2.
C3Witness ==
  /\ eventToEnable = "move" /\ snapArea /\ handlingMove
  /\ canvasImage = FileA
  /\ area = [x |-> Q(10), y |-> Q(2), width |-> Q(-10), height |-> Q(6)]
\* C3 as first stated: an edge that the pointer puts 8 pixels or less from
\* its boundary is placed on the boundary (either edge, when both are that
\* near); with both edges 9 pixels or more away the Area is placed where
\* the pointer puts it.
C3Axis(diff, dimension, low, high, placed) ==
  LET lesser == Min(diff, Add(diff, dimension))
      greater == Max(diff, Add(diff, dimension))
      nearLow == Le(Dist(lesser, low), Q(8))
      nearHigh == Le(Dist(greater, high), Q(8))
      onLow == Min(placed, Add(placed, dimension)) = low
      onHigh == Max(placed, Add(placed, dimension)) = high
  IN  /\ nearLow /\ ~nearHigh => onLow
      /\ nearHigh /\ ~nearLow => onHigh
      /\ nearLow /\ nearHigh => onLow \/ onHigh
      /\ Le(Q(9), Dist(lesser, low)) /\ Le(Q(9), Dist(greater, high))
           => placed = diff
C3Snapped(ev) ==
  LET x == IF ev.x > 0 THEN Q(ev.x) ELSE Zero
      y == IF ev.y > 0 THEN Q(ev.y) ELSE Zero
      scale == transform.a
  IN  /\ C3Axis(Sub(x, pointerPosition[1].x), area.width, transform.e,
                Add(transform.e, Mul(Q(canvasImage.width), scale)), area'.x)
      /\ C3Axis(Sub(y, pointerPosition[1].y), area.height, transform.f,
                Add(transform.f, Mul(Q(canvasImage.height), scale)), area'.y)
C3Inclusive ==
  [][\A ev \in SnapEvents :
       (/\ eventToEnable = "move" /\ snapArea /\ ~handlingMove
        /\ "handlePointermove" \in listeners
        /\ PointerMove(ev)) => C3Snapped(ev)]_vars

\* The sides a direction names, and the coordinate of the edge a side
\* controls.
Sides(d) ==
  CASE d = "" -> {}
    [] d = "n" -> {"n"}
    [] d = "s" -> {"s"}
    [] d = "e" -> {"e"}
    [] d = "w" -> {"w"}
    [] d = "ne" -> {"n", "e"}
    [] d = "nw" -> {"n", "w"}
    [] d = "se" -> {"s", "e"}
    [] d = "sw" -> {"s", "w"}
Edge(a, side) ==
  CASE side = "n" -> a.y
    [] side = "s" -> Add(a.y, a.height)
    [] side = "w" -> a.x
    [] side = "e" -> Add(a.x, a.width)

\* C9.  Direction/resize inverse.  A pointer-move of a resizing gesture
\* calls resizeArea with the pointer position (px, py): after it, for each
\* of the 8 directions, the edge of every side the direction names is at the
\* pointer's coordinate on its axis (n and s at py, w and e at px) and the
\* edge of every other side is where it was; with the empty direction the
\* Area is as it was.
C9Resized(ev) ==
  LET px == IF ev.x > 0 THEN Q(ev.x) ELSE Zero
      py == IF ev.y > 0 THEN Q(ev.y) ELSE Zero
  IN  /\ \A side \in {"n", "s", "w", "e"} :
           Edge(area', side) =
             IF side \in Sides(direction)
               THEN (IF side \in {"n", "s"} THEN py ELSE px)
               ELSE Edge(area, side)
      /\ direction = "" => area' = area
C9Theorem ==
  [][\A ev \in HandleMoves :
       (/\ eventToEnable = "resize" /\ ~handlingMove
        /\ "handlePointermove" \in listeners
        /\ PointerMove(ev)) => C9Resized(ev)]_vars
\* The rectangle from (10, 11) to (30, 29) after its handle "nw" was taken
\* to (5, 15): the corner is at the pointer, the opposite corner in place.
C9Witness ==
  /\ eventToEnable = "resize" /\ handlingMove
  /\ direction = "nw"
  /\ area = [x |-> Q(5), y |-> Q(15), width |-> Q(25), height |-> Q(14)]

\* C10.  Double-click edge snap.  A double-click on an Area of non-zero
\* width and height puts the edge of every side the direction names on a
\* boundary of the transformed image: the lesser edge of its axis on the top
\* (f) or left (e) boundary, the greater on the bottom
\* (f + imageHeight * scale) or right (e + imageWidth * scale) boundary,
\* whatever the signs of width and height; the edge of every other side
\* stays where it was.  With an Area of zero width or height, or the empty
\* direction, the Area is as it was.
C10Boundary(side) ==
  LET vertical == side \in {"n", "s"}
      extent == IF vertical THEN area.height ELSE area.width
      low == IF vertical THEN transform.f ELSE transform.e
      size == IF vertical THEN canvasImage.height ELSE canvasImage.width
      high == Add(low, Mul(Q(size), transform.a))
      lesser == IF side \in {"n", "w"} THEN Gt(extent, Zero)
                ELSE Lt(extent, Zero)
  IN  IF lesser THEN low ELSE high
C10Snapped ==
  IF area.width # Zero /\ area.height # Zero
    THEN /\ \A side \in {"n", "s", "w", "e"} :
              Edge(area', side) =
                IF side \in Sides(direction) THEN C10Boundary(side)
                                             ELSE Edge(area, side)
         /\ direction = "" => area' = area
    ELSE area' = area
C10Theorem == [][DoubleClick => C10Snapped]_vars
\* The rectangle selected from (30, 29) back to (10, 11) over image A (from
\* (0, 10) to (40, 30)), after a double-click with the direction "nw": its
\* corner (30, 29) is now the lower right corner of the image, the opposite
\* corner in place.
C10Witness ==
  /\ canvasImage = FileA
  /\ eventToEnable = ""
  /\ direction = "nw"
  /\ area = [x |-> Q(40), y |-> Q(30), width |-> Q(-30), height |-> Q(-19)]

\* C4.  Invalid-region extraction.  When getCanvasSlice is called and the
\* Area's width or height, divided by the Transform scale and rounded, is
\* zero (as for the Area {0, 0, 0, 0}), the promise is rejected (with the
\* IndexSizeError that getImageData throws), the request ends and no raster
\* is produced: nothing is handed to the folder or to readImages.  When
\* both are non-zero, negative or not, the extraction goes on to encode a
\* raster whose width and height are their magnitudes.
C4Extracted(j) ==
  LET w == Round(Div(area.width, transform.a))
      h == Round(Div(area.height, transform.a))
  IN  IF w = Zero \/ h = Zero
        THEN /\ settled' # None
             /\ settled'[1].status = "rejected"
             /\ settled'[1].value.raster = NoRaster
             /\ Len(crops') = Len(crops) - 1
             /\ UNCHANGED <<folder, reads, images>>
        ELSE /\ Len(crops') = Len(crops)
             /\ crops'[j].stage = "encoding"
             /\ crops'[j].canvas.error = ""
             /\ crops'[j].canvas.width = Abs(w[1])
             /\ crops'[j].canvas.height = Abs(h[1])
             /\ crops'[j].canvas.raster # NoRaster
             /\ UNCHANGED settled
C4Rejected(j) ==
  LET w == Round(Div(area.width, transform.a))
      h == Round(Div(area.height, transform.a))
  IN  Le(w, Zero) \/ Le(h, Zero)
        => /\ settled' # None
           /\ settled'[1].status = "rejected"
           /\ settled'[1].value.raster = NoRaster
           /\ Len(crops') = Len(crops) - 1
C8Block(c) ==
  getCroppedCanvas(c.file, c.at[1].transform, c.at[1].area,
                   c.at[1].rotation, c.at[1].flip)
C8Called ==
  \A j \in 1..Len(crops) :
    (CropImageOnload(j) /\ Len(crops') = Len(crops))
      => crops'[j].at = Some(Snapshot)
C8Resolved ==
  \A j \in 1..Len(crops), blob \in {"blob", "null"} :
    ToBlobCallback(j, blob) =>
      /\ settled' = Some([status |-> "resolved", at |-> crops[j].at[1],
                          value |-> C8Block(crops[j]), file |-> blob])
      /\ IF crops[j].cut
           THEN /\ reads'[Len(reads')].file.width = C8Block(crops[j]).width
                /\ reads'[Len(reads')].file.height = C8Block(crops[j]).height
           ELSE /\ folder'[1].width = C8Block(crops[j]).width
                /\ folder'[1].height = C8Block(crops[j]).height
C8Theorem == [][C8Called /\ C8Resolved]_vars
\* toBlob is pending and both the Area and the Transform are no longer
\* those of the call: the block the current ones give is another.
C8Witness ==
  \E j \in 1..Len(crops) :
    /\ crops[j].stage = "encoding"
    /\ crops[j].at[1].area # area
    /\ crops[j].at[1].transform # transform
    /\ getCroppedCanvas(crops[j].file, transform, area, rotation, flip)
         # crops[j].canvas

\* C7.  Full reset on image switch.  When the decode that loadImageFile
\* started completes while another image is shown, so that the new image
\* becomes the one drawn, the rotation is 0, the flip is {1, 1}, the Area
\* has zero width and height, cut mode is off and the Transform is the fit
\* of the new image to the viewport, whatever events came before the load
\* was requested or between the request and the decode.
C7Reset ==
  [][(CanvasImageOnload /\ canvasImage # NoImage /\ canvasImage' # canvasImage) =>
       /\ rotation' = 0
       /\ flip' = [flipH |-> 1, flipV |-> 1]
       /\ area'.width = Zero /\ area'.height = Zero
       /\ ~cutModeEnabled'
       /\ transform' = scaleImageToFitCanvas(canvasImage')]_vars

\* C11.  Extraction region mapping.  When getCanvasSlice is called with an
\* Area of positive width and height whose width and height, divided by the
\* Transform scale s and rounded, are both at least 1, the raster extracted
\* is round(width / s) wide and round(height / s) high, and its top-left
\* pixel is the pixel (round(x / s) - e / s, round(y / s) - f / s) of the
\* active image of the time of the click, drawn with the current rotation
\* and flip.  At scale 1, translation 0, rotation 0 and the identity flip,
\* with whole x, y, width and height, it is the block of width x height
\* pixels at (x, y) of the image.
C11Positive == Gt(area.width, Zero) /\ Gt(area.height, Zero)
C11Mapped(j) ==
  LET s == transform.a
      c == crops'[j].canvas
  IN  /\ crops'[j].stage = "encoding"
      /\ c.width = Round(Div(area.width, s))[1]
      /\ c.height = Round(Div(area.height, s))[1]
      /\ c.raster =
           [image |-> crops[j].file.name,
            left |-> Sub(Round(Div(area.x, s)), Div(transform.e, s)),
            top |-> Sub(Round(Div(area.y, s)), Div(transform.f, s)),
            rotation |-> rotation, flip |-> flip]
      /\ (/\ transform = Identity /\ rotation = 0
          /\ flip = [flipH |-> 1, flipV |-> 1]
          /\ \A q \in {area.x, area.y, area.width, area.height} : q[2] = 1)
           => /\ c.width = area.width[1] /\ c.height = area.height[1]
              /\ c.raster.left = area.x /\ c.raster.top = area.y
C11Theorem ==
  [][\A j \in 1..Len(crops) :
       (/\ CropImageOnload(j) /\ C11Positive
        /\ Le(One, Round(Div(area.width, transform.a)))
        /\ Le(One, Round(Div(area.height, transform.a))))
         => /\ Len(crops') = Len(crops)
            /\ C11Mapped(j)]_vars
\* The Area {10, 11, 20, 18} over image A zoomed to scale 5/4 about
\* (20, 20) (e = -5, f = 15/2), flipped: the block extracted is 16 by 14 at
\* (8 + 4, 9 - 6) of the flipped image.
C11Witness ==
  \E j \in 1..Len(crops) :
    /\ crops[j].stage = "encoding"
    /\ crops[j].at[1].transform = [a |-> Rat(5, 4), e |-> Q(-5), f |-> Rat(15, 2)]
    /\ crops[j].at[1].flip # [flipH |-> 1, flipV |-> 1]
    /\ crops[j].canvas.width = 16 /\ crops[j].canvas.height = 14
    /\ crops[j].canvas.raster.left = Q(12)
    /\ crops[j].canvas.raster.top = Q(3)
\* At scale 1, translation 0, rotation 0 and the identity flip the block
\* extracted from image C is the Area itself.
C11WitnessIdentity ==
  \E j \in 1..Len(crops) :
    /\ crops[j].stage = "encoding"
    /\ crops[j].at[1] = [transform |-> Identity, rotation |-> 0,
                         flip |-> [flipH |-> 1, flipV |-> 1],
                         area |-> [x |-> Q(3), y |-> Q(5), width |-> Q(7),
                                   height |-> Q(9)]]
    /\ crops[j].canvas.width = 7 /\ crops[j].canvas.height = 9
    /\ crops[j].canvas.raster.left = Q(3) /\ crops[j].canvas.raster.top = Q(5)
\* C11 as first stated: every Area of positive width and height is extracted
\* to a raster of round(width / s) by round(height / s) pixels.
C11EveryPositive ==
  [][\A j \in 1..Len(crops) :
       (CropImageOnload(j) /\ C11Positive)
         => /\ Len(crops') = Len(crops)
            /\ C11Mapped(j)]_vars

\* C12.  Selecting with negative extents.  A pointer-down that starts a
\* selecting gesture at (ox, oy) leaves the Area {ox, oy, 0, 0}.  Every
\* pointer-move of a selecting gesture that is applied, to (px, py) with
\* coordinates below 0 taken as 0, leaves the Area's x and y as they were
\* and sets width to px - x and height to py - y, negative or not.  While
\* the gesture lasts, x and y change by no step other than a pointer-down,
\* Ctrl+A, the cut-mode button or a double-click.
C12Started ==
  \A ev \in DownEvents(Points) :
    (/\ eventToEnable' = "select" /\ ev.which = 1 /\ ~panelVisible
     /\ ~cutModeEnabled /\ PointerDown(ev))
      => area' = [x |-> Q(ev.x), y |-> Q(ev.y), width |-> Zero, height |-> Zero]
C12Selected ==
  \A ev \in MoveEvents(Points) :
    (/\ eventToEnable = "select" /\ ~handlingMove
     /\ "handlePointermove" \in listeners
     /\ PointerMove(ev))
      => LET px == IF ev.x > 0 THEN Q(ev.x) ELSE Zero
             py == IF ev.y > 0 THEN Q(ev.y) ELSE Zero
         IN  area' = [x |-> area.x, y |-> area.y,
                      width |-> Sub(px, area.x), height |-> Sub(py, area.y)]
C12OriginMoved ==
  /\ eventToEnable = "select" /\ eventToEnable' = "select"
  /\ area'.x # area.x \/ area'.y # area.y
C13Surfaced ==
  [][\A j \in 1..Len(crops) :
       ToBlobCallback(j, "null") =>
         /\ settled' # None
         /\ settled'[1].status = "rejected"
         /\ UNCHANGED <<folder, reads>>]_vars

\* The files of list occur in imgs, in the order of list.
RECURSIVE InOrder(_, _)
InOrder(list, imgs) ==
  IF list = <<>> THEN TRUE
  ELSE IF imgs = <<>> THEN FALSE
  ELSE IF Head(imgs) = Head(list) THEN InOrder(Tail(list), Tail(imgs))
  ELSE InOrder(list, Tail(imgs))

\* C14.  readImages completion.  The promise that a call of readImages
\* returns resolves when the body of the call ends, after the decode of the
\* first file of its list: by then every file of the list has been appended
\* to the image collection, in the order of the list.
C14Complete ==
  [][\A i \in 1..Len(reads) :
       ReadImageOnload(i) =>
         InOrder(<<reads[i].file>> \o reads[i].rest, images')]_vars

\* C15.  Every pointer-move is applied.  Every pointer-move delivered to
\* handlePointermove during a gesture, a redraw pending or not, leaves the
\* Area (the Transform, when dragging) that the mutator of the gesture
\* gives for the pointer position, so that the Area at a redraw and at
\* pointer-up is that of the last position delivered.
C15Applied(ev) ==
  LET x == IF ev.x > 0 THEN Q(ev.x) ELSE Zero
      y == IF ev.y > 0 THEN Q(ev.y) ELSE Zero
  IN  /\ eventToEnable = "select" => area' = selectArea(area, x, y)
      /\ eventToEnable = "resize" => area' = resizeArea(area, direction, x, y)
      /\ eventToEnable = "move" =>
           area' = moveArea(area, pointerPosition, transform, canvasImage,
                            snapArea, x, y)
      /\ eventToEnable = "drag" =>
           transform' = dragImage(transform, pointerPosition, x, y)
C15EveryMove ==
  [][\A ev \in MoveEvents(Points) :
       (/\ eventToEnable # "" /\ "handlePointermove" \in listeners
        /\ PointerMove(ev)) => C15Applied(ev)]_vars

\* C16.  Global redraw coalescing.  Whatever handlers requested a redraw
\* since the last animation frame, the frame runs drawCanvas at most once:
\* the animation-frame list never holds more than one callback.
C16OnePerFrame == [][AnimationFrame => Len(rafQueue) <= 1]_vars

\* C17.  Empty-selection release resets the Area and the mask.  A
\* pointer-up with an Area of zero width or zero height leaves the Area
\* with zero width and zero height, and a state of which a redraw (the
\* pending frame, a zoom) paints no mask.
C17Released ==
  [][(PointerUp /\ ~areaDrawn(area)) =>
       /\ area'.width = Zero /\ area'.height = Zero
       /\ ~drawCanvas(canvasImage', area', keepMask').mask]_vars

\* C18.  The crop affordance is guarded.  In every reachable state in which
\* the crop button is visible, the Area has non-zero width and non-zero
\* height.
C18Guarded == cropVisible => area.width # Zero /\ area.height # Zero

\* C19.  Cursor tracking and gestures are mutually exclusive.  While a
\* gesture is under way (from the pointer-down that starts it to its
\* pointer-up) changeCursor is not registered, and during a resizing gesture
\* the direction changes by no step other than a pointer-down, Ctrl+A and
\* the cut-mode button included.
C19Exclusive ==
  [][/\ eventToEnable' # "" => "changeCursor" \notin listeners'
     /\ (/\ eventToEnable = "resize" /\ eventToEnable' = "resize"
         /\ direction' # direction)
          => \E ev \in DownEvents(Points) : PointerDown(ev)]_vars

\* C20.  Cut-mode crop completion.  When a crop that was requested with cut
\* mode enabled completes (its request ends other than by a rejection), the
\* raster it produced is the last element of the image collection,
\* activeImageIndex is its index, the highlighted list item is its item, it
\* is the image the canvas was given to load, cut mode is disabled and the
\* Area has zero width and height, whatever uploads and clicks on the image
\* list came in between.
C20Completes(j) ==
  /\ crops[j].cutRequested
  /\ crops[j].stage \in {"encoding", "reading"}
  /\ \A k \in 1..Len(crops') : crops'[k].id # crops[j].id
C20Appended(j) ==
  LET last == Len(images')
  IN  /\ last > Len(images)
      /\ images'[last].name = getUniqueImageName(crops[j].file.name)
      /\ images'[last].width = crops[j].canvas.width
      /\ images'[last].height = crops[j].canvas.height
      /\ activeImageIndex' = last - 1
      /\ activeListItem' = Some(last - 1)
      /\ pendingSrc' = Some(images'[last])
      /\ ~cutModeEnabled'
      /\ area'.width = Zero /\ area'.height = Zero
C20CutCompletion ==
  [][\A j \in 1..Len(crops) : C20Completes(j) => C20Appended(j)]_vars

\* C21.  Crop request consistency.  When the decode of a crop request's
\* source image completes, the block extracted is the one that the Area and
\* the Transform of the time of the click give of the image that was active
\* at the click, the request is handled as cut mode was set at the click,
\* and the Transform and Area it uses are those of the image it cuts, not
\* of another image shown since.
C21AsRequested(j) ==
  LET c == crops[j]
      want == getCroppedCanvas(c.file, c.requestedAt.transform,
                               c.requestedAt.area, rotation, flip)
  IN  IF Len(crops') = Len(crops)
        THEN /\ crops'[j].canvas = want
             /\ crops'[j].cut = c.cutRequested
        ELSE /\ settled' # None
             /\ settled'[1].value = want
C21OwnImage(j) ==
  Len(crops') = Len(crops) => crops[j].file.name = canvasImage.name
C21Consistent ==
  [][\A j \in 1..Len(crops) :
       CropImageOnload(j) => C21AsRequested(j) /\ C21OwnImage(j)]_vars

====
